---- MODULE Spec2Model ----
(***************************************************************************)
(* Follow-up engine of the job-application automation:                     *)
(*   src/src/followup.py  FollowupEngine (process_followups and the        *)
(*                        single-record handler)                           *)
(*   src/src/sheets.py    SheetsClient (the spreadsheet-backed store)      *)
(*   src/src/mailer.py    GmailMailer (send_email with retries, bounces)   *)
(*   src/src/utils.py     due-date policy                                  *)
(*   src/src/attachments.py  attachment resolver                           *)
(* Time is counted in hours since an arbitrary epoch (UTC).                *)
(***************************************************************************)
EXTENDS Integers, Sequences, FiniteSets, TLC

VARIABLES sheet, activity, outbox, now, settings, run, last, runs, ticks,
          faults, direct

vars == <<sheet, activity, outbox, now, settings, run, last, runs, ticks,
          faults, direct>>

(***************************************************************************)
(* Bounds of the model.                                                    *)
(***************************************************************************)
\* number of process_followups invocations in one behaviour
MaxRuns == 2
\* number of times the clock is advanced in one behaviour
MaxTicks == 1
\* number of times the mail provider or the store misbehaves in one behaviour
\* (a call that raises, a missing message id, a bounce, a failed lookup)
MaxFaults == 1
\* number of add and send commands in one behaviour
MaxAdds == 1
\* number of status edits in one behaviour
MaxEdits == 1

(***************************************************************************)
(* Program constants.                                                      *)
(***************************************************************************)
MAX_RETRIES == 3
FOLLOWUP_DAYS == 7
HoursPerDay == 24
TIMEZONE == "Europe/Paris"

Langs == {"en", "fr"}

\* the engine instance of the sequential specification
SeqEngines == {1}
Engines == {1, 2}

(***************************************************************************)
(* Timestamps.  A date cell of the sheet is a string; the model keeps what *)
(* datetime.fromisoformat makes of it: nothing (empty or malformed text),  *)
(* a naive wall-clock time, or an instant with a UTC offset.               *)
(***************************************************************************)
EmptyCell == [kind |-> "empty", t |-> 0, off |-> 0]
BadCell == [kind |-> "bad", t |-> 0, off |-> 0]
Naive(w) == [kind |-> "naive", t |-> w, off |-> 0]
Aware(t, off) == [kind |-> "aware", t |-> t, off |-> off]

\* pytz.timezone(name): UTC offset in hours; unknown names raise
KnownTimezones == {"Europe/Paris", "UTC"}
UtcOffset(name) == IF name = "Europe/Paris" THEN 1 ELSE 0

\* datetime.fromisoformat raises on this cell
FromIsoformatRaises(cell) == cell.kind \notin {"naive", "aware"}

\* tz.localize(dt): a naive wall-clock time read in the zone tz
Localize(tz, cell) == Aware(cell.t - UtcOffset(tz), UtcOffset(tz))

get_active_timezone == IF settings.timezone \in KnownTimezones
                       THEN settings.timezone
                       ELSE TIMEZONE

get_current_timestamp == Aware(now, UtcOffset(get_active_timezone))

\* faulty variant: a follow-up is not yet due at the very instant of its date
is_followup_due_strict(next_followup_date) ==
    IF FromIsoformatRaises(next_followup_date)
    THEN FALSE
    ELSE LET dt == IF next_followup_date.kind = "naive"
                   THEN Localize(TIMEZONE, next_followup_date)
                   ELSE next_followup_date
         IN  now > dt.t

is_followup_due(next_followup_date) ==
    IF FromIsoformatRaises(next_followup_date)
    THEN FALSE
    ELSE LET dt == IF next_followup_date.kind = "naive"
                   THEN Localize(TIMEZONE, next_followup_date)
                   ELSE next_followup_date
         IN  now >= dt.t

\* faulty variant: the interval passed in is ignored
calculate_next_followup_fixed(sent_date, days) ==
    LET tz == get_active_timezone
        dt == IF FromIsoformatRaises(sent_date)
              THEN Aware(now, UtcOffset(tz))
              ELSE IF sent_date.kind = "naive"
                   THEN Localize(tz, sent_date)
                   ELSE sent_date
    IN  Aware(dt.t + FOLLOWUP_DAYS * HoursPerDay, dt.off)

calculate_next_followup(sent_date, days) ==
    LET tz == get_active_timezone
        dt == IF FromIsoformatRaises(sent_date)
              THEN Aware(now, UtcOffset(tz))
              ELSE IF sent_date.kind = "naive"
                   THEN Localize(tz, sent_date)
                   ELSE sent_date
    IN  Aware(dt.t + days * HoursPerDay, dt.off)

(***************************************************************************)
(* Small text domains.                                                     *)
(***************************************************************************)
\* validators.email accepts these addresses
WellFormedEmails == {"hr@acme.com", "jobs@globex.fr", "rh@initech.fr"}
validate_email(email) == email \in WellFormedEmails

\* str.strip() on the texts the model uses
Strip(s) == IF s \in {"", " ", "  "} THEN "" ELSE s

\* files present in the attachment folders
AttachmentFolder == [en |-> {"cv_en.pdf"}, fr |-> {"cv_fr.pdf"}]

\* faulty variant: the path is built without looking at the folder
get_attachment_path_unchecked(language, filename) == <<language, filename>>

get_attachment_path(language, filename) ==
    IF filename \in AttachmentFolder[language]
    THEN <<language, filename>>
    ELSE <<>>

(***************************************************************************)
(* The store: two application sheets and the activity log.                 *)
(***************************************************************************)
SHEET_EN == "Applications_EN"
SHEET_FR == "Applications_FR"
SheetNames == {SHEET_EN, SHEET_FR}

APPLICATION_COLUMNS ==
    <<"id", "company", "email", "position", "status", "sent_date",
      "followups", "next_followup_date", "phone", "website",
      "body", "cv", "notes", "type", "salary", "place", "reference">>

_get_sheet_name(language) == IF language = "en" THEN SHEET_EN ELSE SHEET_FR

\* the free text of a log entry or of an error: a message, and the number
\* or the file name formatted into it
Detail(text, n, file) == [text |-> text, n |-> n, file |-> file]
NoDetail == Detail("", 0, "")

\* one call made by a handler: its name, what it was called with, whether
\* it returned, and (for the bounce check) what it returned
EventRet(call, arg, ok, ret) == [call |-> call, arg |-> arg, ok |-> ok,
                                 ret |-> ret]
Event(call, arg, ok) == EventRet(call, arg, ok, "")

\* the calls on the store that a handler makes, as the environment sees them
StoreCalls == {"log_activity:followup_skipped", "update_application_followup",
               "log_activity:followup_sent", "update_application_status",
               "log_activity:bounce_detected", "log_activity:followup_failed"}

\* 1-based sheet row of the first row whose column A is app_id (row 1 is the
\* header row); 0 when there is none
_find_row_by_id(sh, sheet_name, app_id) ==
    LET hits == {i \in 1..Len(sh[sheet_name]) : sh[sheet_name][i].id = app_id}
    IN  IF hits = {} THEN 0
        ELSE 1 + CHOOSE i \in hits : \A j \in hits : i <= j

_get_cell_value(sh, sheet_name, row, col) ==
    sh[sheet_name][row - 1][APPLICATION_COLUMNS[col]]

\* faulty variant: the header row is not counted, the cells of the row
\* below are written
WriteCells_noHeader(sh, sheet_name, row_index, cells) ==
    IF row_index > Len(sh[sheet_name]) THEN sh
    ELSE [sh EXCEPT ![sheet_name][row_index] =
            [f \in DOMAIN @ |-> IF f \in DOMAIN cells THEN cells[f] ELSE @[f]]]

\* values().update / batchUpdate of cells of one sheet row
WriteCells(sh, sheet_name, row_index, cells) ==
    [sh EXCEPT ![sheet_name][row_index - 1] =
        [f \in DOMAIN @ |-> IF f \in DOMAIN cells THEN cells[f] ELSE @[f]]]

\* faulty variant: the next date is counted from the current time
update_application_followup_fromNow(st, env, app_id, language, followup_count) ==
    LET sheet_name == _get_sheet_name(language)
        row_index == _find_row_by_id(st.sheet, sheet_name, app_id)
        failed == "update_application_followup" \in env.storeRaises
                  \/ row_index = 0
        next_followup == calculate_next_followup(get_current_timestamp,
                                                 FOLLOWUP_DAYS)
        updates == [followups |-> followup_count,
                    next_followup_date |-> next_followup,
                    status |-> "Follow-up Sent"]
    IN  [raised |-> failed,
         error |-> IF row_index = 0 THEN Detail("Application ID not found", 0, "")
                   ELSE IF failed THEN Detail("HttpError 500", 0, "")
                   ELSE NoDetail,
         st |-> [st EXCEPT
                   !.trace = Append(@, Event("update_application_followup",
                                             app_id, ~failed)),
                   !.sheet = IF failed THEN @
                             ELSE WriteCells(@, sheet_name, row_index, updates)]]

\* st is the state a handler works on: [sheet, activity, outbox, trace]
update_application_followup(st, env, app_id, language, followup_count) ==
    LET sheet_name == _get_sheet_name(language)
        row_index == _find_row_by_id(st.sheet, sheet_name, app_id)
        failed == "update_application_followup" \in env.storeRaises
                  \/ row_index = 0
        last_followup_date == _get_cell_value(st.sheet, sheet_name, row_index, 8)
        next_followup == calculate_next_followup(last_followup_date, FOLLOWUP_DAYS)
        updates == [followups |-> followup_count,
                    next_followup_date |-> next_followup,
                    status |-> "Follow-up Sent"]
    IN  [raised |-> failed,
         error |-> IF row_index = 0 THEN Detail("Application ID not found", 0, "")
                   ELSE IF failed THEN Detail("HttpError 500", 0, "")
                   ELSE NoDetail,
         st |-> [st EXCEPT
                   !.trace = Append(@, Event("update_application_followup",
                                             app_id, ~failed)),
                   !.sheet = IF failed THEN @
                             ELSE WriteCells(@, sheet_name, row_index, updates)]]

update_application_status(st, env, app_id, language, status) ==
    LET sheet_name == _get_sheet_name(language)
        row_index == _find_row_by_id(st.sheet, sheet_name, app_id)
        failed == "update_application_status" \in env.storeRaises
                  \/ row_index = 0
    IN  [raised |-> failed,
         error |-> IF row_index = 0 THEN Detail("Application ID not found", 0, "")
                   ELSE IF failed THEN Detail("HttpError 500", 0, "")
                   ELSE NoDetail,
         st |-> [st EXCEPT
                   !.trace = Append(@, Event("update_application_status",
                                             status, ~failed)),
                   !.sheet = IF failed THEN @
                             ELSE WriteCells(@, sheet_name, row_index,
                                             [status |-> status])]]

log_activity(st, env, app_id, email, action, result, details) ==
    LET failed == ("log_activity:" \o action) \in env.storeRaises
        row == [timestamp |-> get_current_timestamp, id |-> app_id,
                email |-> email, action |-> action, result |-> result,
                details |-> details]
    IN  [raised |-> failed,
         error |-> IF failed THEN Detail("HttpError 500", 0, "") ELSE NoDetail,
         st |-> [st EXCEPT
                   !.trace = Append(@, Event("log_activity", action, ~failed)),
                   !.activity = IF failed THEN @ ELSE Append(@, row)]]

\* DEFAULTS of the configuration; a body template is kept as its salutation
\* and its two placeholders
get_default_company(language) ==
    IF language = "en" THEN "Unknown Company" ELSE "Entreprise inconnue"
get_default_position(language) ==
    IF language = "en" THEN "Instrumentation Engineer"
    ELSE "Ingenieur en Instrumentation"
get_default_body(language) ==
    IF language = "en" THEN "Dear Hiring Manager, [Position] [Company]"
    ELSE "Madame, Monsieur, [Position] [Company]"

\* substitute_placeholders on the default templates, no company being given
substitute_placeholders(body, position, language) ==
    IF body = get_default_body("en")
    THEN "Dear Hiring Manager, Instrumentation Engineer your company"
    ELSE IF body = get_default_body("fr")
    THEN "Madame, Monsieur, Ingenieur en Instrumentation votre entreprise"
    ELSE body

\* uuid4: the n-th identifier generated; none equals an earlier one
generate_id(n) == "new-" \o ToString(n)

\* faulty variant: the first follow-up is scheduled when the row is created
NewRow_scheduled(app_id, email, language, status) ==
    [id |-> app_id, company |-> get_default_company(language),
     email |-> email, position |-> get_default_position(language),
     status |-> status, sent_date |-> EmptyCell, followups |-> 0,
     next_followup_date |-> get_current_timestamp,
     phone |-> "", website |-> "", body |-> "", cv |-> "", notes |-> "",
     type |-> "", salary |-> "", place |-> "", reference |-> ""]

\* the row add_application appends when only the email is given
NewRow(app_id, email, language, status) ==
    [id |-> app_id, company |-> get_default_company(language),
     email |-> email, position |-> get_default_position(language),
     status |-> status, sent_date |-> EmptyCell, followups |-> 0,
     next_followup_date |-> EmptyCell,
     phone |-> "", website |-> "", body |-> "", cv |-> "", notes |-> "",
     type |-> "", salary |-> "", place |-> "", reference |-> ""]

\* the sheets after add_application; app_id is the generated identifier
add_application(sh, app_id, email, language, status) ==
    [sh EXCEPT ![_get_sheet_name(language)] =
        Append(@, NewRow(app_id, email, language, status))]

\* the sheets after update_application_sent (the row exists)
update_application_sent(sh, app_id, language, body, cv_filename) ==
    WriteCells(sh, _get_sheet_name(language),
               _find_row_by_id(sh, _get_sheet_name(language), app_id),
               [status |-> "Sent",
                sent_date |-> get_current_timestamp,
                next_followup_date |->
                    calculate_next_followup(get_current_timestamp,
                                            FOLLOWUP_DAYS),
                body |-> body, cv |-> cv_filename])

\* faulty variant: no status is excluded
IsExcludedStatus_none(status) == FALSE

IsExcludedStatus(status) == status \in {"Bounced", "Failed", "Frozen"}

\* the rows of the partition that the due-candidate query returns, as dicts
get_applications_for_followup(sh, language) ==
    LET rows == sh[_get_sheet_name(language)]
        keep(row) == /\ ~IsExcludedStatus(row.status)
                     /\ row.next_followup_date # EmptyCell
    IN  SelectSeq(rows, keep)

(***************************************************************************)
(* The sender.  The environment of one handler invocation, env, says how   *)
(* the mail provider and the store answer:                                 *)
(*   transmitFails  how many transmit attempts in a row raise              *)
(*   transmitError  the type of the exception those attempts raise         *)
(*   msgId          the message id the provider returns ("" for none)      *)
(*   lookup         what the metadata lookup of check_bounces gives        *)
(*   storeRaises    the store calls that raise                             *)
(***************************************************************************)
Lookups == {"error", "clean", "x-failed-recipients", "undeliverable"}

\* the headers of the looked-up message
LookupHeaders(lookup) ==
    IF lookup = "x-failed-recipients"
    THEN <<[name |-> "X-Failed-Recipients", value |-> "hr@acme.com"]>>
    ELSE IF lookup = "undeliverable"
    THEN <<[name |-> "Subject", value |-> "Undeliverable: Follow-up"]>>
    ELSE <<[name |-> "Subject", value |-> "Follow-up"]>>

\* str.lower() on the header texts the model uses
Lower(s) == IF s = "X-Failed-Recipients" THEN "x-failed-recipients"
            ELSE IF s = "Subject" THEN "subject"
            ELSE IF s = "Undeliverable: Follow-up" THEN "undeliverable: follow-up"
            ELSE IF s = "Follow-up" THEN "follow-up"
            ELSE s

bounce_indicators == {"x-failed-recipients", "x-delivery-status",
                      "delivery-status", "final-recipient", "diagnostic-code"}

\* one of the bounce keywords occurs in the (lower-cased) header value
HasBounceKeyword(value) == value \in {"undeliverable: follow-up"}

\* what check_bounces gives: a bounce record, or NoBounce for None; raised
\* when an exception leaves it
NoBounce == [raised |-> FALSE, bounced |-> FALSE, reason |-> ""]

\* the try block of check_bounces: the lookup, then the scan of the headers
ScanHeaders(env) ==
    IF env.lookup = "error"
    THEN [raised |-> TRUE, bounced |-> FALSE, reason |-> ""]
    ELSE LET headers == LookupHeaders(env.lookup)
             hits == {i \in 1..Len(headers) :
                        \/ Lower(headers[i].name) \in bounce_indicators
                        \/ HasBounceKeyword(Lower(headers[i].value))}
         IN  IF hits = {} THEN NoBounce
             ELSE [raised |-> FALSE, bounced |-> TRUE,
                   reason |-> Lower(headers[CHOOSE i \in hits :
                                              \A j \in hits : i <= j].value)]

\* faulty variant: the exception of the lookup is not caught
check_bounces_uncaught(env) == ScanHeaders(env)

\* try ... except Exception: return None
check_bounces(env) ==
    IF ScanHeaders(env).raised THEN NoBounce ELSE ScanHeaders(env)

\* the precondition that send_email finds violated, "" when there is none
SendValidation(to_email, subject, body, attachment_path) ==
    IF to_email = "" THEN "Recipient email is required."
    ELSE IF Strip(subject) = "" THEN "Email subject cannot be empty."
    ELSE IF Strip(body) = "" THEN "Email body cannot be empty."
    ELSE IF /\ attachment_path # <<>>
            /\ attachment_path[2] \notin AttachmentFolder[attachment_path[1]]
         THEN "Attachment not found"
    ELSE ""

\* the exception types a transmit call raises: an HTTP error of the provider,
\* or a ValueError subclass (a response body that cannot be decoded)
TransmitErrors == {"HttpError", "UnicodeDecodeError"}

\* isinstance(e, ValueError)
IsValueError(exc) == exc \in {"ValueError", "UnicodeDecodeError"}

\* faulty variant: the decorator never gives up early
giveup_never(exc) == FALSE

\* the giveup test of the retry decorator
giveup(exc) == IsValueError(exc)

\* number of times backoff runs the body of send_email when it raises a
\* precondition's ValueError every time
ValidationTries == IF giveup("ValueError") THEN 1 ELSE MAX_RETRIES

\* number of transmit calls backoff makes when the first `fails` of them raise
\* an exception of type exc
TransmitAttempts(fails, exc) ==
    IF fails > 0 /\ giveup(exc) THEN 1
    ELSE IF fails + 1 <= MAX_RETRIES THEN fails + 1
    ELSE MAX_RETRIES

\* tag: the record the message is sent for, its stored due date and the due
\* date the caller listed it with (for the properties; the code does not keep
\* them)
send_email(st, env, to_email, subject, body, attachment_path, tag) ==
    LET invalid == SendValidation(to_email, subject, body, attachment_path)
        attempts == TransmitAttempts(env.transmitFails, env.transmitError)
        delivered == /\ env.transmitFails < MAX_RETRIES
                     /\ ~(env.transmitFails > 0 /\ giveup(env.transmitError))
        calls == [i \in 1..attempts |->
                    Event("transmit", to_email, delivered /\ i = attempts)]
        message == [to |-> to_email, subject |-> subject, body |-> body,
                    attachment |-> attachment_path,
                    app_id |-> tag.app_id, cycle |-> tag.cycle,
                    listed |-> tag.listed]
    IN  IF invalid # ""
        THEN [raised |-> TRUE, exc |-> "ValueError",
              error |-> Detail(invalid, 0, ""),
              id |-> "", tries |-> ValidationTries, st |-> st]
        ELSE [raised |-> ~delivered,
              tries |-> attempts,
              exc |-> IF delivered THEN "" ELSE env.transmitError,
              error |-> IF delivered THEN NoDetail
                        ELSE Detail(env.transmitError, 0, ""),
              id |-> IF delivered THEN env.msgId ELSE "",
              st |-> [st EXCEPT
                        !.trace = @ \o calls,
                        !.outbox = IF delivered THEN Append(@, message) ELSE @]]

send_with_delay(st, env, to_email, subject, body, attachment_path, tag) ==
    LET r == send_email(st, env, to_email, subject, body, attachment_path, tag)
        transmits == SubSeq(r.st.trace, Len(st.trace) + 1, Len(r.st.trace))
    IN  [r EXCEPT !.st.trace =
            Append(st.trace, Event("send_with_delay", to_email, ~r.raised))
            \o transmits]

(***************************************************************************)
(* The single-record handler.  It returns the state it leaves and          *)
(*   outcome   "sent", "skipped" or "failed" (the returned status), or     *)
(*             "raised" when an exception leaves the handler               *)
(*   error     the returned error text                                     *)
(***************************************************************************)
\* faulty variant: the dry-run flag is ignored
DryRunReturns_never(dry_run) == FALSE

\* the dry-run gate of the handler: nothing is sent when it holds
DryRunReturns(dry_run) == dry_run

\* faulty variant: the stored count is written back unchanged
NewFollowupCount_same(app) == app.followups

\* the follow-up count the handler writes
NewFollowupCount(app) == app.followups + 1

\* the subject of the follow-up
FollowupSubject(app) == IF Strip(app.position) = "" THEN "Follow-up"
                        ELSE Strip(app.position)

HandlerReturn(st, outcome, error) ==
    [st |-> st, outcome |-> outcome, error |-> error]

\* return {"status": "skipped", ...} after logging the skip; the log call is
\* outside any try block
SkipReturn(l, errText, file) ==
    IF l.raised THEN HandlerReturn(l.st, "raised", l.error)
    ELSE HandlerReturn(l.st, "skipped", Detail(errText, 0, file))

SkipRecord(st, env, app, logText, errText, file) ==
    SkipReturn(log_activity(st, env, app.id, app.email, "followup_skipped",
                            "failed", Detail(logText, 0, file)),
               errText, file)

\* what a step of the try block leaves: whether it raised, the error text,
\* the state
Step(raised, error, st) == [raised |-> raised, error |-> error, st |-> st]

\* after a bounce was found: the status write, then the bounce log entry
MarkBounced(u, env, app, bounce_info) ==
    IF u.raised THEN u
    ELSE log_activity(u.st, env, app.id, app.email, "bounce_detected",
                      "bounced", Detail(bounce_info.reason, 0, ""))

\* faulty variant: the bounce record is dropped
OnBounceInfo_ignored(st, env, app, language, bounce_info) ==
    Step(FALSE, NoDetail, st)

OnBounceInfo(st, env, app, language, bounce_info) ==
    IF ~bounce_info.bounced THEN Step(FALSE, NoDetail, st)
    ELSE MarkBounced(update_application_status(st, env, app.id, language,
                                               "Bounced"),
                     env, app, bounce_info)

\* the bounce check after the success log entry (inside the try block)
BounceCheck(l, env, app, language, msg_id) ==
    IF l.raised THEN l
    ELSE IF msg_id = "" THEN Step(FALSE, NoDetail, l.st)
    ELSE IF check_bounces(env).raised
    THEN Step(TRUE, Detail("HttpError 404", 0, ""),
              [l.st EXCEPT !.trace =
                  Append(@, EventRet("check_bounces", msg_id, FALSE, ""))])
    ELSE OnBounceInfo([l.st EXCEPT !.trace =
                          Append(@, EventRet("check_bounces", msg_id, TRUE,
                                     IF check_bounces(env).bounced
                                     THEN "bounce" ELSE "none"))],
                      env, app, language, check_bounces(env))

\* after the store update: the success log entry, then the bounce check
AfterUpdate(u, env, app, language, new_followup_count, msg_id) ==
    IF u.raised THEN u
    ELSE BounceCheck(log_activity(u.st, env, app.id, app.email,
                                  "followup_sent", "success",
                                  Detail("Follow-up # sent",
                                         new_followup_count, "")),
                     env, app, language, msg_id)

\* faulty variant: the record is updated whether or not the sender raised
AfterSend_updateAnyway(s, env, app, language, new_followup_count) ==
    AfterUpdate(update_application_followup(s.st, env, app.id, language,
                                            new_followup_count),
                env, app, language, new_followup_count, s.id)

\* after the sender returned or raised
AfterSend(s, env, app, language, new_followup_count) ==
    IF s.raised THEN Step(TRUE, s.error, s.st)
    ELSE AfterUpdate(update_application_followup(s.st, env, app.id, language,
                                                 new_followup_count),
                     env, app, language, new_followup_count, s.id)

\* faulty variant: nothing is sent when the stored date is no longer the
\* one the candidate was listed with
TrySend_rechecked(st, env, app, language, subject, attachment_path) ==
    IF st.sheet[_get_sheet_name(language)]
         [_find_row_by_id(st.sheet, _get_sheet_name(language), app.id) - 1]
         .next_followup_date # app.next_followup_date
    THEN Step(FALSE, NoDetail, st)
    ELSE AfterSend(send_with_delay(st, env, app.email, subject, app.body,
                     attachment_path,
                     [app_id |-> app.id,
                      cycle |-> app.next_followup_date,
                      listed |-> app.next_followup_date]),
                   env, app, language, NewFollowupCount(app))

\* the body of the try block
TrySend(st, env, app, language, subject, attachment_path) ==
    AfterSend(send_with_delay(st, env, app.email, subject, app.body,
                 attachment_path,
                 [app_id |-> app.id,
                  cycle |-> st.sheet[_get_sheet_name(language)]
                              [_find_row_by_id(st.sheet,
                                               _get_sheet_name(language),
                                               app.id) - 1].next_followup_date,
                  listed |-> app.next_followup_date]),
              env, app, language, NewFollowupCount(app))

\* faulty variant: the error text is not returned
ExceptClause_noError(t, f) ==
    IF f.raised THEN HandlerReturn(f.st, "raised", f.error)
    ELSE HandlerReturn(f.st, "failed", NoDetail)

\* the except clause: the failure log entry (not itself guarded)
ExceptClause(t, f) ==
    IF f.raised THEN HandlerReturn(f.st, "raised", f.error)
    ELSE HandlerReturn(f.st, "failed", t.error)

\* faulty variant: a failure marks the record Failed
TryExcept_markFailed(t, env, app) ==
    IF ~t.raised THEN HandlerReturn(t.st, "sent", NoDetail)
    ELSE ExceptClause(t,
           log_activity(
             update_application_status(
               t.st, env, app.id,
               CHOOSE l \in Langs :
                  _find_row_by_id(t.st.sheet, _get_sheet_name(l), app.id) # 0,
               "Failed").st,
             env, app.id, app.email, "followup_failed", "failed", t.error))

\* try ... except Exception
TryExcept(t, env, app) ==
    IF ~t.raised THEN HandlerReturn(t.st, "sent", NoDetail)
    ELSE ExceptClause(t, log_activity(t.st, env, app.id, app.email,
                                      "followup_failed", "failed", t.error))

\* from the attachment check on
WithAttachment(st1, env, app, language, dry_run, attachment_path) ==
    IF attachment_path = <<>>
    THEN SkipRecord(st1, env, app, "Attachment not found: ",
                    "Attachment not found: ", app.cv)
    ELSE IF DryRunReturns(dry_run)
    THEN HandlerReturn(st1, "sent", NoDetail)
    ELSE TryExcept(TrySend(st1, env, app, language, FollowupSubject(app),
                           attachment_path),
                   env, app)

\* faulty variant: the body is looked at before the address
_process_single_followup_bodyFirst(st, env, app, language, dry_run) ==
    IF app.body = ""
    THEN SkipRecord(st, env, app, "Missing email body", "Missing body", "")
    ELSE IF app.email = "" \/ ~validate_email(app.email)
    THEN SkipRecord(st, env, app, "Invalid email address", "Invalid email", "")
    ELSE IF app.cv = ""
    THEN SkipRecord(st, env, app, "Missing CV filename", "Missing CV", "")
    ELSE WithAttachment(
           [st EXCEPT !.trace =
              Append(@, Event("get_attachment_path", app.cv,
                              get_attachment_path(language, app.cv) # <<>>))],
           env, app, language, dry_run,
           get_attachment_path(language, app.cv))

_process_single_followup(st, env, app, language, dry_run) ==
    IF app.email = "" \/ ~validate_email(app.email)
    THEN SkipRecord(st, env, app, "Invalid email address", "Invalid email", "")
    ELSE IF app.body = ""
    THEN SkipRecord(st, env, app, "Missing email body", "Missing body", "")
    ELSE IF app.cv = ""
    THEN SkipRecord(st, env, app, "Missing CV filename", "Missing CV", "")
    ELSE WithAttachment(
           [st EXCEPT !.trace =
              Append(@, Event("get_attachment_path", app.cv,
                              get_attachment_path(language, app.cv) # <<>>))],
           env, app, language, dry_run,
           get_attachment_path(language, app.cv))

(***************************************************************************)
(* Initial store contents.                                                 *)
(***************************************************************************)
\* the clock when the behaviour starts
Now0 == 30 * HoursPerDay

Row(id, email, position, status, sent_date, followups, next, body, cv) ==
    [id |-> id, company |-> "Acme", email |-> email, position |-> position,
     status |-> status, sent_date |-> sent_date, followups |-> followups,
     next_followup_date |-> next, phone |-> "", website |-> "",
     body |-> body, cv |-> cv, notes |-> "met at fair", type |-> "SME",
     salary |-> "40k", place |-> "Lyon", reference |-> "REF-7"]

Yesterday == Aware(Now0 - HoursPerDay, 1)
LongAgo == Aware(Now0 - 10 * HoursPerDay, 1)
Tomorrow == Aware(Now0 + HoursPerDay, 1)
SentBefore == Aware(Now0 - 8 * HoursPerDay, 1)

\* rows of the English sheet: a record that is due and sendable, and one
\* record for each way a row can differ from it
RowsEN1 ==
    LET good(id, status, n, next) ==
            Row(id, "hr@acme.com", "Engineer", status, SentBefore, n, next,
                "Dear Hiring Manager", "cv_en.pdf")
    IN  { good("app-1", "Sent", 0, Yesterday),
          good("app-1", "Follow-up Sent", 1, LongAgo),
          good("app-1", "Sent", 0, Naive(Now0)),
          good("app-1", "Sent", 0, Tomorrow),
          good("app-1", "Sent", 0, BadCell),
          good("app-1", "Bounced", 1, Yesterday),
          Row("app-1", "hr@acme.com", "Engineer", "Draft", EmptyCell, 0,
              EmptyCell, "", ""),
          Row("app-1", "not-an-email", "Engineer", "Sent", SentBefore, 0,
              Yesterday, "", ""),
          Row("app-1", "", "Engineer", "Sent", SentBefore, 0, Yesterday,
              "Dear Hiring Manager", "cv_en.pdf"),
          Row("app-1", "hr@acme.com", "Engineer", "Sent", SentBefore, 0,
              Yesterday, "", "cv_en.pdf"),
          Row("app-1", "hr@acme.com", "", "Sent", SentBefore, 0, Yesterday,
              " ", "cv_en.pdf"),
          Row("app-1", "hr@acme.com", "Engineer", "Sent", SentBefore, 0,
              Yesterday, "Dear Hiring Manager", ""),
          Row("app-1", "hr@acme.com", "Engineer", "Sent", SentBefore, 0,
              Yesterday, "Dear Hiring Manager", "missing.pdf") }

\* the second English record and the French record: due and sendable
RowEN2 == Row("app-2", "jobs@globex.fr", "Technician", "Follow-up Sent",
              SentBefore, 2, Yesterday, "Dear Sir or Madam", "cv_en.pdf")

RowFR == Row("app-3", "rh@initech.fr", "Ingenieur", "Sent",
             SentBefore, 0, Yesterday, "Madame, Monsieur", "cv_fr.pdf")

\* the stores and settings a behaviour starts from: the active timezone is
\* the configured one, or (for the record with a naive date) another one
InitialStores ==
    {[first |-> r, timezone |-> TIMEZONE] : r \in RowsEN1}
    \cup {[first |-> r, timezone |-> "UTC"] :
            r \in {x \in RowsEN1 : x.next_followup_date.kind = "naive"}}

(***************************************************************************)
(* One invocation of process_followups per engine.                         *)
(***************************************************************************)
NoStats == [sent |-> 0, skipped |-> 0, failed |-> 0, errors |-> <<>>]

IdleRun == [pc |-> "idle", language |-> "", dry_run |-> FALSE,
            languages |-> <<>>, lang |-> "", due_apps |-> <<>>,
            stats |-> NoStats, raisedIn |-> "",
            sheet0 |-> <<>>, log0 |-> <<>>,
            listed |-> <<>>, handled |-> <<>>, calls |-> {},
            transmitted |-> <<>>, queried |-> <<>>]

\* no function or command has been called directly
NoCall == [fn |-> "none"]

NoHandler == [engine |-> 0, app_id |-> "", language |-> "", dry_run |-> FALSE,
              outcome |-> "none", error |-> NoDetail, trace |-> <<>>,
              app |-> <<>>, pre |-> <<>>, post |-> <<>>, logged |-> <<>>,
              env |-> <<>>]

Init ==
    /\ \E s \in InitialStores :
         /\ sheet = [n \in SheetNames |->
                      IF n = SHEET_EN THEN <<s.first, RowEN2>> ELSE <<RowFR>>]
         /\ settings = [timezone |-> s.timezone]
    /\ activity = <<>>
    /\ outbox = <<>>
    /\ now = Now0
    /\ run = [e \in Engines |-> IdleRun]
    /\ last = NoHandler
    /\ runs = 0
    /\ ticks = 0
    /\ faults = 0
    /\ direct = NoCall

Active(e) == run[e].pc \in {"loop", "records"}

\* faulty variant: after the last partition the loop is entered again
Continue_neverDone(due_apps, languages) ==
    IF due_apps # <<>> THEN "records" ELSE "loop"

\* where the run continues: the next candidate, the next partition, or the
\* summary and the return of the statistics
Continue(due_apps, languages) ==
    IF due_apps # <<>> THEN "records"
    ELSE IF languages # <<>> THEN "loop"
    ELSE "done"

\* the language selectors a caller may pass
Selectors == {"en", "fr", "both", "de"}

\* process_followups is entered: the selector is checked, the statistics are
\* zeroed
EnterProcessFollowups(e, language, dry_run) ==
    /\ ~Active(e)
    /\ runs < MaxRuns
    /\ runs' = runs + 1
    /\ run' = [run EXCEPT ![e] =
         [IdleRun EXCEPT
            !.pc = IF language \in {"en", "fr", "both"} THEN "loop" ELSE "raised",
            !.raisedIn = IF language \in {"en", "fr", "both"} THEN "" ELSE "language",
            !.language = language,
            !.dry_run = dry_run,
            !.languages = IF language = "both" THEN <<"en", "fr">>
                          ELSE IF language \in {"en", "fr"} THEN <<language>>
                          ELSE <<>>,
            !.sheet0 = sheet,
            !.log0 = activity]]
    /\ last' = NoHandler
    /\ UNCHANGED <<sheet, activity, outbox, now, settings, ticks, faults, direct>>

\* a call of process_followups while no other run is under way
ProcessFollowupsCall(e, language, dry_run) ==
    /\ \A f \in Engines : ~Active(f)
    /\ EnterProcessFollowups(e, language, dry_run)

\* top of the partition loop: the listing call and the due filter
ListDueCandidates(e, listingRaises) ==
    /\ run[e].pc = "loop"
    /\ run[e].languages # <<>>
    /\ listingRaises => faults < MaxFaults
    /\ faults' = faults + (IF listingRaises THEN 1 ELSE 0)
    /\ LET lang == Head(run[e].languages)
           applications == get_applications_for_followup(sheet, lang)
           isDue(app) == is_followup_due(app.next_followup_date)
           due_apps == SelectSeq(applications, isDue)
       IN  run' = [run EXCEPT ![e] =
             IF listingRaises
             THEN [@ EXCEPT !.pc = "raised", !.raisedIn = "listing",
                            !.lang = lang,
                            !.calls = @ \cup {"get_applications_for_followup"}]
             ELSE [@ EXCEPT !.pc = Continue(due_apps, Tail(run[e].languages)),
                            !.lang = lang,
                            !.languages = Tail(@),
                            !.due_apps = due_apps,
                            !.listed = @ \o [i \in 1..Len(due_apps) |-> due_apps[i].id],
                            !.queried = @ \o [i \in 1..Len(applications) |->
                                                [id |-> applications[i].id,
                                                 status |-> applications[i].status]],
                            !.calls = @ \cup {"get_applications_for_followup"}]]
    /\ UNCHANGED <<sheet, activity, outbox, now, settings, last, runs, ticks,
                   direct>>

\* the environment in which every call returns and nothing bounces
Calm == [transmitFails |-> 0, transmitError |-> "HttpError",
         msgId |-> "msg-1", lookup |-> "clean", storeRaises |-> {}]

\* in how many ways an environment departs from Calm
Cost(env) == (IF env.transmitFails > 0 THEN 1 ELSE 0)
             + (IF env.msgId = "" THEN 1 ELSE 0)
             + (IF env.lookup # "clean" THEN 1 ELSE 0)
             + Cardinality(env.storeRaises)

\* (an exception that is given up on is raised by the first attempt only)
AllEnvs ==
    {env \in [transmitFails : 0..MAX_RETRIES,
              transmitError : TransmitErrors,
              msgId : {"", "msg-1"},
              lookup : Lookups,
              storeRaises : {F \in SUBSET StoreCalls :
                               Cardinality(F) <= MaxFaults}] :
       env.transmitError # "HttpError" => env.transmitFails = 1}

\* the environments that depart from Calm in at most k ways
Envs == [k \in 0..MaxFaults |-> {env \in AllEnvs : Cost(env) <= k}]

\* every departure of env from Calm showed in the calls the handler made
\* (departures that the handler never meets are not enumerated twice)
Met(env, trace) ==
    LET failedStore == {IF trace[i].call = "log_activity"
                        THEN "log_activity:" \o trace[i].arg
                        ELSE trace[i].call :
                          i \in {j \in 1..Len(trace) :
                                   /\ ~trace[j].ok
                                   /\ trace[j].call \in {"log_activity",
                                         "update_application_followup",
                                         "update_application_status"}}}
        called(c) == \E i \in 1..Len(trace) : trace[i].call = c
        delivered == \E i \in 1..Len(trace) :
                        trace[i].call = "transmit" /\ trace[i].ok
    IN  /\ env.storeRaises = failedStore
        /\ env.transmitFails > 0 => called("transmit")
        /\ env.msgId = "" => delivered
        /\ env.lookup # "clean" => called("check_bounces")

\* the stored row of a record
StoredRow(sh, language, app_id) ==
    sh[_get_sheet_name(language)]
      [_find_row_by_id(sh, _get_sheet_name(language), app_id) - 1]

\* the messages a handler transmitted: the records and the due dates they
\* were listed with
Transmitted(before, after) ==
    [i \in 1..(Len(after) - Len(before)) |->
        [app_id |-> after[Len(before) + i].app_id,
         listed |-> after[Len(before) + i].listed]]

\* faulty variant: skipped candidates are not counted
FoldResult_dropSkipped(stats, app, result) ==
    IF result.outcome = "sent" THEN [stats EXCEPT !.sent = @ + 1]
    ELSE IF result.outcome = "skipped" THEN stats
    ELSE [stats EXCEPT !.failed = @ + 1,
                       !.errors = Append(@, [email |-> app.email,
                                             error |-> result.error])]

\* faulty variant: a skip is also entered in the errors list
FoldResult_skipAsError(stats, app, result) ==
    IF result.outcome = "sent" THEN [stats EXCEPT !.sent = @ + 1]
    ELSE IF result.outcome = "skipped"
    THEN [stats EXCEPT !.skipped = @ + 1,
                       !.errors = Append(@, [email |-> app.email,
                                             error |-> result.error])]
    ELSE [stats EXCEPT !.failed = @ + 1,
                       !.errors = Append(@, [email |-> app.email,
                                             error |-> result.error])]

\* the statistics after folding one handler result into them
FoldResult(stats, app, result) ==
    IF result.outcome = "sent" THEN [stats EXCEPT !.sent = @ + 1]
    ELSE IF result.outcome = "skipped" THEN [stats EXCEPT !.skipped = @ + 1]
    ELSE [stats EXCEPT !.failed = @ + 1,
                       !.errors = Append(@, [email |-> app.email,
                                             error |-> result.error])]

\* one iteration of the candidate loop in the environment env: the handler
\* and the fold of its result
HandleCandidate(e, env) ==
    /\ run[e].pc = "records"
    /\ faults' = faults + Cost(env)
    /\ \E app \in {Head(run[e].due_apps)}, lang \in {run[e].lang},
          rest \in {Tail(run[e].due_apps)} :
       \E result \in {_process_single_followup(
                         [sheet |-> sheet, activity |-> activity,
                          outbox |-> outbox, trace |-> <<>>],
                         env, app, lang, run[e].dry_run)} :
       \E names \in {{result.st.trace[i].call : i \in 1..Len(result.st.trace)}} :
           /\ Met(env, result.st.trace)
           /\ sheet' = result.st.sheet
           /\ activity' = result.st.activity
           /\ outbox' = result.st.outbox
           /\ last' = [engine |-> e, app_id |-> app.id, language |-> lang,
                       dry_run |-> run[e].dry_run,
                       outcome |-> result.outcome, error |-> result.error,
                       trace |-> result.st.trace, app |-> app,
                       pre |-> StoredRow(sheet, lang, app.id),
                       post |-> StoredRow(result.st.sheet, lang, app.id),
                       logged |-> SubSeq(result.st.activity, Len(activity) + 1,
                                         Len(result.st.activity)),
                       env |-> env]
           /\ run' = [run EXCEPT ![e] =
                IF result.outcome = "raised"
                THEN [@ EXCEPT !.pc = "raised", !.raisedIn = "handler",
                               !.calls = @ \cup names,
                               !.transmitted = @ \o Transmitted(outbox,
                                                       result.st.outbox)]
                ELSE [@ EXCEPT !.pc = Continue(rest, run[e].languages),
                               !.due_apps = rest,
                               !.stats = FoldResult(@, app, result),
                               !.handled = Append(@, app.id),
                               !.calls = @ \cup names,
                               !.transmitted = @ \o Transmitted(outbox,
                                                       result.st.outbox)]]
    /\ UNCHANGED <<now, settings, runs, ticks, direct>>

\* one iteration of the candidate loop, whatever the provider and the store do
ProcessSingleFollowup(e) ==
    \E env \in Envs[MaxFaults - faults] : HandleCandidate(e, env)

\* time passes before a run (a run lasts seconds, the step is a week)
AdvanceClock ==
    /\ \A e \in Engines : ~Active(e)
    /\ runs < MaxRuns
    /\ ticks < MaxTicks
    /\ ticks' = ticks + 1
    /\ now' = now + FOLLOWUP_DAYS * HoursPerDay
    /\ UNCHANGED <<sheet, activity, outbox, settings, run, last, runs, faults,
                   direct>>

\* runs of one engine, one after another; the provider and the store may
\* misbehave in every way
Next ==
    \/ \E e \in SeqEngines, language \in Selectors, dry_run \in BOOLEAN :
         ProcessFollowupsCall(e, language, dry_run)
    \/ \E e \in SeqEngines, listingRaises \in BOOLEAN :
         ListDueCandidates(e, listingRaises)
    \/ \E e \in SeqEngines : ProcessSingleFollowup(e)
    \/ AdvanceClock

Spec == Init /\ [][Next]_vars

\* a run that was entered goes on: the interpreter executes the next
\* statement of process_followups, and every call it makes returns or
\* raises.  It is enough to require it of the steps in which nothing fails:
\* such a step is possible whenever a step of the run is, and stays so
\* until the run takes a step.  The handling of a candidate in the calm
\* environment is possible exactly when the run is at a candidate; its weak
\* fairness is written with that condition in the place of ENABLED.
HandlesCalmly == \E e \in SeqEngines : HandleCandidate(e, Calm)

AtCandidate == \E e \in SeqEngines : run[e].pc = "records"

SpecLive ==
    /\ Init
    /\ [][Next]_vars
    /\ WF_vars(\E e \in SeqEngines : ListDueCandidates(e, FALSE))
    /\ ([]<>(~AtCandidate) \/ []<><<HandlesCalmly>>_vars)

\* the same runs with a store that answers every call a handler makes (the
\* sender may still raise, messages may bounce, the listing may fail)
StoreUpEnvs == [k \in 0..MaxFaults |-> {env \in Envs[k] : env.storeRaises = {}}]

\* one iteration of the candidate loop with a store that answers
ProcessSingleFollowupStoreUp(e) ==
    \E env \in StoreUpEnvs[MaxFaults - faults] : HandleCandidate(e, env)

NextStoreUp ==
    \/ \E e \in SeqEngines, language \in Selectors, dry_run \in BOOLEAN :
         ProcessFollowupsCall(e, language, dry_run)
    \/ \E e \in SeqEngines, listingRaises \in BOOLEAN :
         ListDueCandidates(e, listingRaises)
    \/ \E e \in SeqEngines : ProcessSingleFollowupStoreUp(e)
    \/ AdvanceClock

SpecStoreUp == Init /\ [][NextStoreUp]_vars

(***************************************************************************)
(* Two invocations of process_followups at the same time (two processes,   *)
(* each with its own engine, on the same spreadsheet).  Nothing orders     *)
(* their steps; a handler is taken as one step.  The store answers every   *)
(* call a handler makes.                                                   *)
(***************************************************************************)
\* the stores whose first record is due and passes every validation of the
\* handler
RacedStores ==
    {s \in InitialStores :
        /\ s.timezone = TIMEZONE
        /\ ~IsExcludedStatus(s.first.status)
        /\ s.first.next_followup_date \in {Yesterday, LongAgo}
        /\ validate_email(s.first.email)
        /\ s.first.body = "Dear Hiring Manager"
        /\ s.first.cv = "cv_en.pdf"}

InitConcurrent ==
    /\ \E s \in RacedStores :
         /\ sheet = [n \in SheetNames |->
                      IF n = SHEET_EN THEN <<s.first, RowEN2>> ELSE <<RowFR>>]
         /\ settings = [timezone |-> s.timezone]
    /\ activity = <<>>
    /\ outbox = <<>>
    /\ now = Now0
    /\ run = [e \in Engines |-> IdleRun]
    /\ last = NoHandler
    /\ runs = 0
    /\ ticks = 0
    /\ faults = 0
    /\ direct = NoCall

NextConcurrent ==
    \/ \E e \in Engines, language \in Selectors, dry_run \in BOOLEAN :
         EnterProcessFollowups(e, language, dry_run)
    \/ \E e \in Engines, listingRaises \in BOOLEAN :
         ListDueCandidates(e, listingRaises)
    \/ \E e \in Engines : ProcessSingleFollowupStoreUp(e)
    \/ AdvanceClock

SpecConcurrent == InitConcurrent /\ [][NextConcurrent]_vars

(***************************************************************************)
(* Status edits of the web interface between runs of the engine.  `direct` *)
(* keeps the edits made so far.                                            *)
(***************************************************************************)
\* the status options of the edit page
status_options == {"Pending", "Sent", "Follow-up Sent", "Call Received",
                   "Interview Scheduled", "Interview Complete", "Offer",
                   "Hired", "Rejected", "Bounced", "Failed", "Frozen"}

\* the statuses the model's user chooses
EditedStatuses == {"Rejected", "Interview Scheduled", "Frozen"}

NoEdits == [fn |-> "edit", edits |-> <<>>]

InitEdits ==
    /\ \E s \in RacedStores :
         /\ sheet = [n \in SheetNames |->
                      IF n = SHEET_EN THEN <<s.first, RowEN2>> ELSE <<RowFR>>]
         /\ settings = [timezone |-> s.timezone]
    /\ activity = <<>>
    /\ outbox = <<>>
    /\ now = Now0
    /\ run = [e \in Engines |-> IdleRun]
    /\ last = NoHandler
    /\ runs = 0
    /\ ticks = 0
    /\ faults = 0
    /\ direct = NoEdits

\* PUT /api/applications/{app_id} with field = status: the record is looked
\* up, column E is written, the edit is logged
update_application(app_id, value, language) ==
    /\ \A e \in Engines : ~Active(e)
    /\ Len(direct.edits) < MaxEdits
    /\ value \in status_options
    /\ _find_row_by_id(sheet, _get_sheet_name(language), app_id) # 0
    /\ \E u \in {update_application_status(
                     [sheet |-> sheet, activity |-> activity,
                      outbox |-> outbox, trace |-> <<>>],
                     Calm, app_id, language, value)} :
       \E l \in {log_activity(u.st, Calm, app_id,
                              StoredRow(sheet, language, app_id).email,
                              "field_updated_status", "success",
                              Detail("Updated status to: " \o value, 0, ""))} :
         /\ sheet' = l.st.sheet
         /\ activity' = l.st.activity
    /\ direct' = [direct EXCEPT !.edits =
                     Append(@, [app_id |-> app_id, value |-> value])]
    /\ UNCHANGED <<outbox, now, settings, run, last, runs, ticks, faults>>

NextEdits ==
    \/ \E app_id \in {"app-1", "app-3"}, value \in EditedStatuses,
          language \in Langs :
         update_application(app_id, value, language)
    \/ \E e \in SeqEngines, language \in Selectors, dry_run \in BOOLEAN :
         ProcessFollowupsCall(e, language, dry_run)
    \/ \E e \in SeqEngines, listingRaises \in BOOLEAN :
         ListDueCandidates(e, listingRaises)
    \/ \E e \in SeqEngines : ProcessSingleFollowupStoreUp(e)
    \/ AdvanceClock

SpecEdits == InitEdits /\ [][NextEdits]_vars

(***************************************************************************)
(* The add and send commands of the command line, between runs of the      *)
(* engine.  `direct` keeps the row the last command created, as            *)
(* add_application appended it, the identifiers in the store before it,    *)
(* and the identifiers created so far.                                     *)
(***************************************************************************)
StoredIds(sh) == UNION {{sh[n][i].id : i \in 1..Len(sh[n])} : n \in SheetNames}

NoCommand == [fn |-> "none", row |-> <<>>, before |-> {}, created |-> {}]

InitLifecycle ==
    /\ sheet = [n \in SheetNames |->
                  IF n = SHEET_EN THEN <<RowEN2>> ELSE <<RowFR>>]
    /\ settings = [timezone |-> TIMEZONE]
    /\ activity = <<>>
    /\ outbox = <<>>
    /\ now = Now0
    /\ run = [e \in Engines |-> IdleRun]
    /\ last = NoHandler
    /\ runs = 0
    /\ ticks = 0
    /\ faults = 0
    /\ direct = NoCommand

\* the add command: a draft row and its log entry
AddCommand(email, lang) ==
    /\ \A e \in Engines : ~Active(e)
    /\ Cardinality(direct.created) < MaxAdds
    /\ validate_email(email)
    /\ \E app_id \in {generate_id(Cardinality(direct.created) + 1)} :
         /\ sheet' = add_application(sheet, app_id, email, lang, "Draft")
         /\ \E l \in {log_activity([sheet |-> sheet, activity |-> activity,
                                     outbox |-> outbox, trace |-> <<>>],
                                    Calm, app_id, email, "application_added",
                                    "success", Detail("Added as draft", 0, ""))} :
              activity' = l.st.activity
         /\ direct' = [fn |-> "add",
                       row |-> StoredRow(sheet', lang, app_id),
                       before |-> StoredIds(sheet),
                       created |-> direct.created \cup {app_id}]
    /\ UNCHANGED <<outbox, now, settings, run, last, runs, ticks, faults>>

\* the environments of a send command: the provider answers, or every
\* transmit attempt raises
CommandEnvs == {Calm, [Calm EXCEPT !.transmitFails = MAX_RETRIES]}

\* after the sender returned or raised in the send command
RecordSend(s, sh, app_id, recipient, language, final_body, attachment) ==
    IF s.raised
    THEN [sheet |-> update_application_status(
                       [s.st EXCEPT !.sheet = sh], Calm, app_id, language,
                       "Failed").st.sheet,
          log |-> log_activity(s.st, Calm, app_id, recipient, "email_failed",
                               "failed", s.error).st.activity,
          outbox |-> s.st.outbox]
    ELSE [sheet |-> update_application_sent(sh, app_id, language, final_body,
                                            attachment),
          log |-> log_activity(s.st, Calm, app_id, recipient, "email_sent",
                               "success",
                               Detail("Initial application sent", 0, ""))
                    .st.activity,
          outbox |-> s.st.outbox]

\* the send command for one recipient and one language, the attachment
\* being named: a Pending row, the send, then Sent or Failed
SendCommand(recipient, lang, attachment, env) ==
    /\ \A e \in Engines : ~Active(e)
    /\ Cardinality(direct.created) < MaxAdds
    /\ validate_email(recipient)
    /\ get_attachment_path(lang, attachment) # <<>>
    /\ faults + Cost(env) <= MaxFaults
    /\ faults' = faults + Cost(env)
    /\ \E app_id \in {generate_id(Cardinality(direct.created) + 1)},
          final_body \in {substitute_placeholders(get_default_body(lang),
                             get_default_position(lang), lang)} :
       \E added \in {add_application(sheet, app_id, recipient, lang,
                                     "Pending")} :
       \E r \in {RecordSend(
                   send_with_delay([sheet |-> added, activity |-> activity,
                                    outbox |-> outbox, trace |-> <<>>], env,
                                   recipient, get_default_position(lang),
                                   final_body,
                                   get_attachment_path(lang, attachment),
                                   [app_id |-> app_id, cycle |-> EmptyCell,
                                    listed |-> EmptyCell]),
                   added, app_id, recipient, lang, final_body, attachment)} :
         /\ sheet' = r.sheet
         /\ activity' = r.log
         /\ outbox' = r.outbox
         /\ direct' = [fn |-> "send",
                       row |-> StoredRow(added, lang, app_id),
                       before |-> StoredIds(sheet),
                       created |-> direct.created \cup {app_id}]
    /\ UNCHANGED <<now, settings, run, last, runs, ticks>>

NextLifecycle ==
    \/ \E email \in {"hr@acme.com"}, lang \in Langs : AddCommand(email, lang)
    \/ \E recipient \in {"hr@acme.com"}, lang \in Langs, env \in CommandEnvs :
         SendCommand(recipient, lang, "cv_" \o lang \o ".pdf", env)
    \/ \E e \in SeqEngines, language \in Selectors, dry_run \in BOOLEAN :
         ProcessFollowupsCall(e, language, dry_run)
    \/ \E e \in SeqEngines, listingRaises \in BOOLEAN :
         ListDueCandidates(e, listingRaises)
    \/ \E e \in SeqEngines : ProcessSingleFollowup(e)
    \/ AdvanceClock

SpecLifecycle == InitLifecycle /\ [][NextLifecycle]_vars

(***************************************************************************)
(* Direct calls of the sender and of the due-date policy, as the commands  *)
(* of the user interfaces and the tests make them.                         *)
(***************************************************************************)
\* clock readings and date cells the functions are called with
ProbeTimes == {Now0 - 1, Now0, Now0 + 1}
ProbeCells == {EmptyCell, BadCell}
              \cup {Naive(w) : w \in ProbeTimes}
              \cup {Aware(t, off) : t \in ProbeTimes, off \in {0, 1}}
ProbeDays == {0, 1, FOLLOWUP_DAYS}
ProbeTimezones == KnownTimezones \cup {"Mars/Olympus"}

\* what the mail provider does during one direct call of send_email
SenderEnvs == {env \in AllEnvs : env.lookup = "clean" /\ env.storeRaises = {}}

InitCalls ==
    /\ sheet = [n \in SheetNames |-> <<>>]
    /\ settings \in [timezone : ProbeTimezones]
    /\ now \in {Now0, Now0 + 1}
    /\ activity = <<>>
    /\ outbox = <<>>
    /\ run = [e \in Engines |-> IdleRun]
    /\ last = NoHandler
    /\ runs = 0
    /\ ticks = 0
    /\ faults = 0
    /\ direct = NoCall

IsFollowupDueCall(next_followup_date) ==
    /\ direct' = [fn |-> "is_followup_due", arg |-> next_followup_date,
                  ret |-> is_followup_due(next_followup_date)]
    /\ UNCHANGED <<sheet, activity, outbox, now, settings, run, last, runs,
                   ticks, faults>>

CalculateNextFollowupCall(sent_date, days) ==
    /\ direct' = [fn |-> "calculate_next_followup", arg |-> sent_date,
                  days |-> days,
                  ret |-> calculate_next_followup(sent_date, days)]
    /\ UNCHANGED <<sheet, activity, outbox, now, settings, run, last, runs,
                   ticks, faults>>

SendEmailCall(env, to_email, subject, body, attachment_path) ==
    /\ \E r \in {send_email([sheet |-> sheet, activity |-> activity,
                              outbox |-> <<>>, trace |-> <<>>], env,
                             to_email, subject, body, attachment_path,
                             [app_id |-> "", cycle |-> EmptyCell,
                              listed |-> EmptyCell])} :
         direct' = [fn |-> "send_email", to_email |-> to_email,
                    subject |-> subject, body |-> body,
                    attachment_path |-> attachment_path,
                    raised |-> r.raised, exc |-> r.exc, error |-> r.error,
                    id |-> r.id, tries |-> r.tries,
                    trace |-> r.st.trace, sent |-> r.st.outbox]
    /\ UNCHANGED <<sheet, activity, outbox, now, settings, run, last, runs,
                   ticks, faults>>

NextCalls ==
    \/ \E cell \in ProbeCells : IsFollowupDueCall(cell)
    \/ \E cell \in ProbeCells, days \in ProbeDays :
         CalculateNextFollowupCall(cell, days)
    \/ \E env \in SenderEnvs, to_email \in {"", "hr@acme.com"},
          subject \in {"", " ", "Engineer"},
          body \in {"", " ", "Dear Hiring Manager"},
          attachment_path \in {<<>>, <<"en", "cv_en.pdf">>,
                               <<"en", "missing.pdf">>} :
         SendEmailCall(env, to_email, subject, body, attachment_path)

SpecCalls == InitCalls /\ [][NextCalls]_vars

(***************************************************************************)
(* Vocabulary of the properties.                                           *)
(***************************************************************************)
\* the handler recorded in `last` has run
Handled == last.outcome # "none"

CountCalls(trace, call) ==
    Cardinality({i \in 1..Len(trace) : trace[i].call = call})

\* send_with_delay was called and returned / raised
SenderReturned(trace) ==
    \E i \in 1..Len(trace) : trace[i].call = "send_with_delay" /\ trace[i].ok
SenderRaised(trace) ==
    \E i \in 1..Len(trace) : trace[i].call = "send_with_delay" /\ ~trace[i].ok

\* check_bounces was called and reported a bounce
BounceReported(trace) ==
    \E i \in 1..Len(trace) :
       trace[i].call = "check_bounces" /\ trace[i].ret = "bounce"

\* the handler appended a log entry with this action for its record
Logged(action) ==
    \E i \in 1..Len(last.logged) :
       /\ last.logged[i].action = action
       /\ last.logged[i].id = last.app_id
       /\ last.logged[i].email = last.app.email

\* the candidate passes the four validations of the handler
PassesValidation(app, language) ==
    /\ app.email \in WellFormedEmails
    /\ app.body # ""
    /\ app.cv # ""
    /\ app.cv \in AttachmentFolder[language]

\* the instant a date cell denotes when a naive time is read in zone tz
InstantIn(tz, cell) == IF cell.kind = "naive" THEN cell.t - UtcOffset(tz)
                       ELSE cell.t

\* date cell d2 is strictly later than d1, however naive times are read
Later(d2, d1) ==
    /\ d1.kind \in {"naive", "aware"}
    /\ d2.kind \in {"naive", "aware"}
    /\ \A tz \in KnownTimezones : InstantIn(tz, d2) > InstantIn(tz, d1)

\* the calls through which a run reaches the Sender or rewrites a record
SenderAndUpdateCalls == {"send_with_delay", "transmit", "check_bounces",
                         "update_application_followup",
                         "update_application_status"}

(***************************************************************************)
(* C1.  Across runs executed one after another, failures of store calls    *)
(* included, no record is sent two follow-up emails for the same stored    *)
(* value of next_followup_date.                                            *)
(***************************************************************************)
C1_OneSendPerCycle ==
    \A i, j \in 1..Len(outbox) :
       (i # j /\ outbox[i].app_id = outbox[j].app_id)
          => outbox[i].cycle # outbox[j].cycle

(***************************************************************************)
(* C2.  In a dry run no call reaches the Sender (send_with_delay, a        *)
(* transmit, check_bounces), no call rewrites a record                     *)
(* (update_application_followup, update_application_status), the           *)
(* application sheets are what they were when the run started, and a       *)
(* candidate that passes validation is reported as sent.                   *)
(***************************************************************************)
C2_DryRunLeavesRecords ==
    \A e \in Engines :
       (run[e].pc # "idle" /\ run[e].dry_run) =>
          /\ run[e].calls \cap SenderAndUpdateCalls = {}
          /\ sheet = run[e].sheet0
          /\ (Handled /\ last.engine = e
                /\ PassesValidation(last.app, last.language))
               => last.outcome = "sent"

\* a dry run has returned after reporting a validated candidate as sent
C2_Witness ==
    /\ run[1].pc = "done" /\ run[1].dry_run
    /\ run[1].stats.sent > 0
    /\ Handled /\ PassesValidation(last.app, last.language)

(***************************************************************************)
(* C3.  In a dry run the activity log holds exactly the entries it held    *)
(* when the run started.                                                   *)
(***************************************************************************)
C3_DryRunLeavesActivityLog ==
    \A e \in Engines :
       (run[e].pc # "idle" /\ run[e].dry_run) => activity = run[e].log0

C8_HandlerFailureIsolated ==
    \A e \in Engines :
       ~(run[e].pc = "raised" /\ run[e].raisedIn = "handler")

(***************************************************************************)
(* C9.  With selector "both", a failure of the listing call of one         *)
(* partition does not end the run: the run goes on to the other partition  *)
(* and returns its statistics.                                             *)
(***************************************************************************)
C9_ListingFailureIsolated ==
    \A e \in Engines :
       run[e].language = "both" =>
          ~(run[e].pc = "raised" /\ run[e].raisedIn = "listing")

(***************************************************************************)
(* C10.  When process_followups has returned, the due candidates listed    *)
(* for the selected partitions are exactly the candidates folded into the  *)
(* statistics, each once, so sent + skipped + failed is their number; with *)
(* no due candidate the three counts are 0.                                *)
(***************************************************************************)
C10_EveryCandidateCounted ==
    \A e \in Engines :
       run[e].pc = "done" =>
          /\ run[e].handled = run[e].listed
          /\ run[e].stats.sent + run[e].stats.skipped + run[e].stats.failed
               = Len(run[e].listed)
          /\ run[e].listed = <<>> =>
               (/\ run[e].stats.sent = 0
                /\ run[e].stats.skipped = 0
                /\ run[e].stats.failed = 0)

\* a run over both partitions returned with a sent, a skipped and a failed
\* candidate
C10_Witness ==
    /\ run[1].pc = "done"
    /\ run[1].stats.sent > 0
    /\ run[1].stats.skipped > 0
    /\ run[1].stats.failed > 0

\* the statuses of the terminal-exclusion set
InExclusionSet(status) == status \in {"Bounced", "Failed", "Frozen"}

(***************************************************************************)
(* C11.  A record whose status is Bounced, Failed or Frozen is never among *)
(* the candidates a run lists and never handled, and no step of a run      *)
(* rewrites its row or transmits a message for it: a record the engine     *)
(* marked Bounced gets no further follow-up.                               *)
(***************************************************************************)
C11_ExcludedNeverProcessed ==
    /\ [](/\ \A e \in Engines : \A i \in 1..Len(run[e].due_apps) :
               ~InExclusionSet(run[e].due_apps[i].status)
          /\ Handled => ~InExclusionSet(last.pre.status))
    /\ [][\A n \in SheetNames : \A i \in 1..Len(sheet[n]) :
            InExclusionSet(sheet[n][i].status) =>
               /\ Len(sheet'[n]) >= i
               /\ sheet'[n][i] = sheet[n][i]
               /\ \A k \in (Len(outbox) + 1)..Len(outbox') :
                     outbox'[k].app_id # sheet[n][i].id]_vars

\* a later real run over the English sheet has returned without listing a
\* record that the engine marked Bounced after sending to it, though its
\* next_followup_date has passed
C11_Witness ==
    /\ runs = 2 /\ run[1].pc = "done" /\ ~run[1].dry_run
    /\ run[1].language \in {"en", "both"}
    /\ \E i \in 1..Len(sheet[SHEET_EN]) :
          /\ sheet[SHEET_EN][i].status = "Bounced"
          /\ is_followup_due(sheet[SHEET_EN][i].next_followup_date)
          /\ \E k \in 1..Len(outbox) :
                outbox[k].app_id = sheet[SHEET_EN][i].id
          /\ \A j \in 1..Len(run[1].listed) :
                run[1].listed[j] # sheet[SHEET_EN][i].id

(***************************************************************************)
(* C12.  The errors list of the statistics has as many entries as          *)
(* candidates were counted failed: a handler result folded into the        *)
(* statistics appends its {email, error} at the end when it is a failure   *)
(* and leaves the list and the failed count alone when it is a skip or a   *)
(* send.                                                                   *)
(***************************************************************************)
C12_ErrorsListFailures ==
    /\ [](\A e \in Engines : Len(run[e].stats.errors) = run[e].stats.failed)
    /\ [][\A e \in Engines :
            Len(run'[e].handled) = Len(run[e].handled) + 1 =>
               IF last'.outcome = "failed"
               THEN /\ run'[e].stats.failed = run[e].stats.failed + 1
                    /\ run'[e].stats.errors =
                          Append(run[e].stats.errors,
                                 [email |-> last'.app.email,
                                  error |-> last'.error])
               ELSE /\ run'[e].stats.failed = run[e].stats.failed
                    /\ run'[e].stats.errors = run[e].stats.errors]_vars

\* a run has returned one error entry after skipping one candidate and
\* failing on the next
C12_Witness ==
    /\ run[1].pc = "done"
    /\ run[1].stats.skipped = 1
    /\ run[1].stats.failed = 1
    /\ Len(run[1].stats.errors) = 1
    /\ run[1].stats.errors[1].email = RowEN2.email

\* the transmit attempts of a trace, in order
IsTransmit(ev) == ev.call = "transmit"
Transmits(trace) == SelectSeq(trace, IsTransmit)

(***************************************************************************)
(* C14.  In one send_email call every transmit attempt that raises is      *)
(* followed by another attempt until MAX_RETRIES attempts were made; there *)
(* are never more than MAX_RETRIES attempts; an attempt that succeeds is   *)
(* the last one and the call returns; when the last allowed attempt raises *)
(* the call raises.                                                        *)
(***************************************************************************)
C14_TransmitFailuresRetried ==
    Handled =>
       LET t == Transmits(last.trace)
       IN  /\ Len(t) <= MAX_RETRIES
           /\ \A i \in 1..Len(t) :
                 (~t[i].ok /\ i < MAX_RETRIES) => i < Len(t)
           /\ \A i \in 1..Len(t) :
                 t[i].ok => (i = Len(t) /\ SenderReturned(last.trace))
           /\ (Len(t) = MAX_RETRIES /\ ~t[MAX_RETRIES].ok)
                 => SenderRaised(last.trace)

\* the calls of a trace on the store all returned
StoreAnswered(trace) ==
    \A i \in 1..Len(trace) :
       trace[i].call \in {"log_activity", "update_application_followup",
                          "update_application_status"} => trace[i].ok

(***************************************************************************)
(* C15.  check_bounces never raises: whatever the metadata lookup does it  *)
(* returns a bounce record or None, and None when the lookup fails; a      *)
(* handler whose store calls all return reports the candidate sent         *)
(* whatever the bounce check met.                                          *)
(***************************************************************************)
C15_BounceCheckNeverRaises ==
    Handled =>
       /\ \A i \in 1..Len(last.trace) :
             last.trace[i].call = "check_bounces" =>
                /\ last.trace[i].ok
                /\ last.trace[i].ret \in {"bounce", "none"}
                /\ last.env.lookup = "error" => last.trace[i].ret = "none"
       /\ (CountCalls(last.trace, "check_bounces") > 0
             /\ StoreAnswered(last.trace)) => last.outcome = "sent"

\* a follow-up was reported sent although the metadata lookup failed
C15_Witness ==
    /\ Handled /\ last.env.lookup = "error"
    /\ CountCalls(last.trace, "check_bounces") = 1
    /\ last.outcome = "sent"

\* a precondition of send_email is violated by the arguments of the call
ViolatesPrecondition(c) ==
    \/ c.to_email = ""
    \/ c.subject \in {"", " "}
    \/ c.body \in {"", " "}
    \/ /\ c.attachment_path # <<>>
       /\ c.attachment_path[2] \notin AttachmentFolder[c.attachment_path[1]]

(***************************************************************************)
(* C13.  A send_email call with an empty recipient, a blank subject, a     *)
(* blank body or an attachment that does not exist raises a ValueError     *)
(* from the first run of its body, without any transmit call and without   *)
(* a message being sent: it is not retried.                                *)
(***************************************************************************)
C13_PreconditionsFailFast ==
    (direct.fn = "send_email" /\ ViolatesPrecondition(direct)) =>
       /\ direct.raised
       /\ direct.exc = "ValueError"
       /\ direct.error # NoDetail
       /\ direct.tries = 1
       /\ Transmits(direct.trace) = <<>>
       /\ direct.sent = <<>>

\* send_email was called with an attachment that does not exist, all else
\* being in order
C13_Witness ==
    /\ direct.fn = "send_email" /\ direct.raised
    /\ direct.to_email # "" /\ direct.subject = "Engineer"
    /\ direct.body = "Dear Hiring Manager"
    /\ direct.attachment_path = <<"en", "missing.pdf">>

(***************************************************************************)
(* C16.  is_followup_due returns false for an absent or unparseable date,  *)
(* and for a parseable one returns true exactly when now is at or after    *)
(* it, a time without timezone being read in the configured TIMEZONE.      *)
(***************************************************************************)
C16_DueIffDatePassed ==
    direct.fn = "is_followup_due" =>
       IF direct.arg.kind \in {"naive", "aware"}
       THEN direct.ret = (now >= InstantIn(TIMEZONE, direct.arg))
       ELSE direct.ret = FALSE

\* a naive date that falls on this very instant in the configured timezone
\* was found due while the active timezone is another one
C16_Witness ==
    /\ direct.fn = "is_followup_due" /\ direct.ret
    /\ direct.arg.kind = "naive"
    /\ now = InstantIn(TIMEZONE, direct.arg)
    /\ get_active_timezone # TIMEZONE

(***************************************************************************)
(* C17.  calculate_next_followup(base_date, days) is base_date plus days   *)
(* days for a parseable base_date (a time without timezone being read in   *)
(* the active timezone, an offset being kept), and now plus days days for  *)
(* an unparseable one; it always returns.                                  *)
(***************************************************************************)
C17_NextIsBasePlusDays ==
    direct.fn = "calculate_next_followup" =>
       /\ direct.ret.kind = "aware"
       /\ direct.ret.t =
            (IF direct.arg.kind \in {"naive", "aware"}
             THEN InstantIn(get_active_timezone, direct.arg)
             ELSE now) + direct.days * HoursPerDay
       /\ direct.arg.kind = "aware" => direct.ret.off = direct.arg.off

\* an unparseable date gave now plus one day
C17_Witness ==
    /\ direct.fn = "calculate_next_followup"
    /\ direct.arg = BadCell /\ direct.days = 1
    /\ direct.ret.t = now + HoursPerDay

\* the created rows of the store for which no initial send is recorded
UnsentCreated(sh) ==
    {r \in UNION {{sh[n][i] : i \in 1..Len(sh[n])} : n \in SheetNames} :
        r.id \in direct.created /\ r.sent_date = EmptyCell}

\* the identifiers an engine's run met: returned by the query, listed as
\* due, or handed to the handler
MetByEngine ==
    UNION {{run[e].queried[i].id : i \in 1..Len(run[e].queried)}
           \cup {run[e].listed[i] : i \in 1..Len(run[e].listed)}
           \cup {run[e].handled[i] : i \in 1..Len(run[e].handled)}
           : e \in Engines}
    \cup (IF Handled THEN {last.app_id} ELSE {})

\* C18: a record created by add_application, as Draft or Pending, gets an
\* identifier no stored record has, a follow-up count of 0, an empty sent
\* date and an empty next follow-up date; while no initial send is recorded
\* for it, no run of the engine gets it from the due-candidate query, lists
\* it, hands it to the handler or sends a message for it, and no step other
\* than a command changes its row.
C18_UnsentNeverFollowedUp ==
    /\ [](direct.fn \in {"add", "send"} =>
            /\ direct.row.id \notin direct.before
            /\ direct.row.status \in {"Draft", "Pending"}
            /\ direct.row.followups = 0
            /\ direct.row.sent_date = EmptyCell
            /\ direct.row.next_followup_date = EmptyCell)
    /\ [](\A r \in UnsentCreated(sheet) :
            /\ r.id \notin MetByEngine
            /\ \A i \in 1..Len(outbox) : outbox[i].app_id # r.id)
    /\ [][direct' = direct => UnsentCreated(sheet) \subseteq UnsentCreated(sheet')]_vars

\* a run listed and handled a due record while a created record without an
\* initial send is in the same sheet
C18_Witness ==
    /\ direct.fn \in {"add", "send"}
    /\ Handled
    /\ last.outcome = "sent"
    /\ \E r \in UnsentCreated(sheet) :
         /\ r.status \in {"Draft", "Failed"}
         /\ \E e \in Engines : run[e].queried # <<>> /\ run[e].pc = "done"
         /\ \E i \in 1..Len(sheet[_get_sheet_name(last.language)]) :
              sheet[_get_sheet_name(last.language)][i].id = r.id

\* C19: two invocations of process_followups that run at the same time on
\* one partition can both list the same due record and both send a
\* follow-up for the same due date: a handler of a real run that gets past
\* its validations calls the sender whatever the store holds for the
\* record by then, and a message is transmitted whenever the sender returns.
C19_NothingPreventsSecondSend ==
    (Handled /\ ~last.dry_run /\ last.outcome \in {"sent", "failed"})
        => /\ CountCalls(last.trace, "send_with_delay") = 1
           /\ SenderReturned(last.trace) =>
                \E i \in 1..Len(run[last.engine].transmitted) :
                    /\ run[last.engine].transmitted[i].app_id = last.app_id
                    /\ run[last.engine].transmitted[i].listed
                         = last.app.next_followup_date

\* both invocations listed the same record and each transmitted a
\* follow-up for the due date it was listed with
C19_Witness ==
    /\ Active(1) \/ Active(2)
    /\ \E i \in 1..Len(run[1].transmitted), j \in 1..Len(run[2].transmitted) :
         /\ run[1].transmitted[i] = run[2].transmitted[j]
         /\ \E k \in 1..Len(run[1].listed) :
              run[1].listed[k] = run[1].transmitted[i].app_id
         /\ \E k \in 1..Len(run[2].listed) :
              run[2].listed[k] = run[2].transmitted[j].app_id

\* the handler's call of update_application_followup returned
FollowupRecorded(trace) ==
    \E i \in 1..Len(trace) :
        trace[i].call = "update_application_followup" /\ trace[i].ok

\* C20: the follow-up update derives the new state of a record from the
\* values the store holds at the moment of the update, not from the
\* candidate listed at the start of the partition: the count written is one
\* above the count stored just before the handler, and the date written is
\* the next follow-up after the date stored just before the handler.
C20_UpdateFromStoredValues ==
    (Handled /\ FollowupRecorded(last.trace)) =>
       /\ last.post.followups = last.pre.followups + 1
       /\ last.post.next_followup_date
            = calculate_next_followup(last.pre.next_followup_date,
                                      FOLLOWUP_DAYS)

\* the candidate has a defect of input shape: one the handler checks, or one
\* that violates a precondition of the sender for the arguments the handler
\* passes (the recipient, the body, the resolved attachment)
HasInputDefect(app, language) ==
    \/ app.email = "" \/ app.email \notin WellFormedEmails
    \/ app.body \in {"", " "}
    \/ app.cv = ""
    \/ app.cv \notin AttachmentFolder[language]

\* C21: in a run that is not a dry run, a candidate with a validation
\* failure (a defect the handler checks, or a violated precondition of the
\* sender such as a whitespace-only body) is reported skipped, never failed.
C21_ValidationFailureSkips ==
    (Handled /\ ~last.dry_run /\ HasInputDefect(last.app, last.language))
        => last.outcome = "skipped"

\* the reason of the earliest check a candidate fails, in the order address,
\* body, attachment reference, resolution of the reference; "" when it passes
EarliestDefect(app, language) ==
    IF app.email \notin WellFormedEmails THEN "Invalid email"
    ELSE IF app.body = "" THEN "Missing body"
    ELSE IF app.cv = "" THEN "Missing CV"
    ELSE IF app.cv \notin AttachmentFolder[language]
    THEN "Attachment not found: "
    ELSE ""

SkippedEntries ==
    {i \in 1..Len(last.logged) : last.logged[i].action = "followup_skipped"}

Parseable(cell) == cell.kind \in {"naive", "aware"}

\* C23: when the follow-up update of a handler was written for a record
\* whose stored next follow-up date d can be parsed, the new next follow-up
\* date is the instant of d (a naive d read in the active timezone) plus
\* FOLLOWUP_DAYS days, whatever the clock says.
C23_NextDerivedFromPrevious ==
    (Handled /\ FollowupRecorded(last.trace)
       /\ Parseable(last.pre.next_followup_date)) =>
       /\ last.post.next_followup_date.kind = "aware"
       /\ last.post.next_followup_date.t
            = InstantIn(get_active_timezone, last.pre.next_followup_date)
              + FOLLOWUP_DAYS * HoursPerDay

\* a follow-up was recorded for a record whose date was not the current
\* time, and the new date is not FOLLOWUP_DAYS days from now
C23_Witness ==
    /\ Handled /\ FollowupRecorded(last.trace)
    /\ last.outcome = "sent"
    /\ Parseable(last.pre.next_followup_date)
    /\ last.post.next_followup_date.t # now + FOLLOWUP_DAYS * HoursPerDay

\* the positions in a trace of the calls named call (with argument arg)
At(trace, call) == {i \in 1..Len(trace) : trace[i].call = call}
AtArg(trace, call, arg) ==
    {i \in 1..Len(trace) : trace[i].call = call /\ trace[i].arg = arg}

\* every position of I comes before every position of J
AllBefore(I, J) == \A i \in I, j \in J : i < j

\* the positions of the calls that rewrite a record
Mutations(trace) ==
    At(trace, "update_application_followup")
    \cup At(trace, "update_application_status")

\* C24: in a run that is not a dry run, the handler of a candidate that
\* passes validation calls the sender once and before any call that rewrites
\* the record; update_application_followup is called only when the sender
\* returned, after every transmit attempt; the followup_sent entry is logged
\* only after that update returned; the bounce check comes only after the
\* followup_sent entry was appended; and the status write of a bounce comes
\* after the bounce check and is the last call that rewrites the record.
C24_StepsInOrder ==
    (Handled /\ ~last.dry_run /\ PassesValidation(last.app, last.language)) =>
       LET t == last.trace
           sends == At(t, "send_with_delay")
           updates == At(t, "update_application_followup")
           logs == AtArg(t, "log_activity", "followup_sent")
           checks == At(t, "check_bounces")
           marks == At(t, "update_application_status")
       IN  /\ Cardinality(sends) = 1
           /\ AllBefore(sends, Mutations(t))
           /\ updates # {} => SenderReturned(t)
           /\ AllBefore(At(t, "transmit"), updates)
           /\ Cardinality(updates) <= 1
           /\ logs # {} => \E u \in updates : t[u].ok
           /\ AllBefore(updates, logs)
           /\ checks # {} => \E l \in logs : t[l].ok
           /\ AllBefore(logs, checks)
           /\ marks # {} => BounceReported(t)
           /\ AllBefore(checks, marks)
           /\ AllBefore(updates, marks)
           /\ Cardinality(marks) <= 1

\* a handler that went through every step: send, update, success entry,
\* bounce check, Bounced status
C24_Witness ==
    /\ Handled /\ ~last.dry_run
    /\ PassesValidation(last.app, last.language)
    /\ SenderReturned(last.trace)
    /\ FollowupRecorded(last.trace)
    /\ BounceReported(last.trace)
    /\ At(last.trace, "update_application_status") # {}
    /\ last.post.status = "Bounced"

\* the three cells that say where a record is in its follow-up cycle
CycleCells(row) == <<row.status, row.followups, row.next_followup_date>>

\* the handler reported its candidate skipped, or failed after the sender
\* raised
SkippedOrSendFailed ==
    /\ Handled
    /\ \/ last.outcome = "skipped"
       \/ last.outcome = "failed" /\ SenderRaised(last.trace)

\* the latest entry of the activity log for the record says that its last
\* handler skipped it or failed
LastReportedUnsent(log, id) ==
    \E i \in 1..Len(log) :
       /\ log[i].id = id
       /\ log[i].action \in {"followup_skipped", "followup_failed"}
       /\ \A j \in (i + 1)..Len(log) : log[j].id # id

\* C25: a candidate reported skipped, or failed because the sender raised,
\* keeps its status, follow-up count and next follow-up date; no record is
\* handled twice in one run; and a later listing of the record's partition
\* returns as due every record whose last handler ended that way.
C25_UnsentStaysDue ==
    /\ [](SkippedOrSendFailed => CycleCells(last.post) = CycleCells(last.pre))
    /\ [](\A e \in Engines : \A i, j \in 1..Len(run[e].handled) :
             run[e].handled[i] = run[e].handled[j] => i = j)
    /\ [][\A e \in Engines :
            (run[e].pc = "loop" /\ run'[e].pc # "raised"
               /\ run'[e].languages # run[e].languages)
            => \A k \in 1..Len(sheet[_get_sheet_name(run'[e].lang)]) :
                 LastReportedUnsent(
                    activity, sheet[_get_sheet_name(run'[e].lang)][k].id)
                 => \E d \in 1..Len(run'[e].due_apps) :
                       run'[e].due_apps[d].id
                         = sheet[_get_sheet_name(run'[e].lang)][k].id]_vars

\* the second run lists as due a record whose follow-up failed in the first
C25_Witness ==
    /\ runs = 2 /\ run[1].pc = "records" /\ run[1].handled = <<>>
    /\ ~run[1].dry_run
    /\ \E d \in 1..Len(run[1].due_apps) :
         /\ LastReportedUnsent(activity, run[1].due_apps[d].id)
         /\ \E i \in 1..Len(activity) :
              /\ activity[i].id = run[1].due_apps[d].id
              /\ activity[i].action = "followup_failed"

\* the cells a follow-up update may write
CycleFields == {"status", "followups", "next_followup_date"}

\* C26: a step of a run changes no row of the sheets except the row of the
\* record its handler was called for, and in that row only the status, the
\* follow-up count and the next follow-up date: the id, the address, the
\* sent date, the body, the attachment reference, the notes and the
\* extension fields stay as they were, and no row is added or removed.
C26_UpdateWritesCycleFieldsOnly ==
    [][\A n \in SheetNames :
         /\ Len(sheet'[n]) = Len(sheet[n])
         /\ \A i \in 1..Len(sheet[n]) :
              sheet'[n][i] # sheet[n][i] =>
                 /\ last'.outcome # "none"
                 /\ n = _get_sheet_name(last'.language)
                 /\ sheet[n][i].id = last'.app_id
                 /\ \A f \in (DOMAIN sheet[n][i]) \ CycleFields :
                       sheet'[n][i][f] = sheet[n][i][f]]_vars

\* a handler wrote the follow-up and then the Bounced status into the first
\* record of a sheet that holds a second one
C26_Witness ==
    /\ Handled /\ FollowupRecorded(last.trace)
    /\ last.post.status = "Bounced"
    /\ last.post.followups = last.pre.followups + 1
    /\ last.post.next_followup_date # last.pre.next_followup_date
    /\ last.post.sent_date = last.pre.sent_date
    /\ Len(sheet[_get_sheet_name(last.language)]) = 2
    /\ sheet[_get_sheet_name(last.language)][1].id = last.app_id

\* the final statuses of the lifecycle: a positive response, a rejection,
\* or one of the three excluded statuses
FinalStatuses == {"Call Received", "Interview Scheduled", "Interview Complete",
                  "Offer", "Hired", "Rejected", "Bounced", "Failed", "Frozen"}

\* C27: no step of a run of process_followups changes the status of a
\* record whose status is final (a positive response, Rejected, Bounced,
\* Failed or Frozen); such a record is never moved to "Follow-up Sent".
C27_FinalStatusKept ==
    [][direct' = direct =>
         \A n \in SheetNames : \A i \in 1..Len(sheet[n]) :
            (i <= Len(sheet'[n]) /\ sheet[n][i].status \in FinalStatuses)
               => sheet'[n][i].status = sheet[n][i].status]_vars

\* sequence s is a prefix of sequence t
IsPrefix(s, t) == Len(s) <= Len(t) /\ \A i \in 1..Len(s) : s[i] = t[i]

\* C28: every run of process_followups that was entered returns or raises,
\* whatever the sender and the store answer; the candidates are handled in
\* the order they were listed, none twice, all of them when the run
\* returns; and a handler makes at most one call of the sender with at most
\* MAX_RETRIES transmit attempts.
C28_RunTerminates ==
    /\ \A e \in SeqEngines : Active(e) ~> run[e].pc \in {"done", "raised"}
    /\ [](\A e \in SeqEngines :
            /\ IsPrefix(run[e].handled, run[e].listed)
            /\ \A i, j \in 1..Len(run[e].listed) :
                  run[e].listed[i] = run[e].listed[j] => i = j
            /\ run[e].pc = "done" => run[e].handled = run[e].listed)
    /\ [](Handled =>
            /\ CountCalls(last.trace, "send_with_delay") <= 1
            /\ CountCalls(last.trace, "transmit") <= MAX_RETRIES)

\* a run over both partitions returned after handling three candidates, one
\* of them with a sender that raised on every attempt
C28_Witness ==
    /\ run[1].pc = "done"
    /\ Len(run[1].handled) = 3
    /\ run[1].stats.failed > 0
    /\ Handled /\ CountCalls(last.trace, "transmit") = MAX_RETRIES
    /\ SenderRaised(last.trace)

\* a transmit attempt of the handler succeeded: the provider accepted the
\* message
Delivered(trace) ==
    \E i \in 1..Len(trace) : trace[i].call = "transmit" /\ trace[i].ok

\* C29: when the handler reports failed for a record, no email was
\* transmitted to the record during that handler invocation, whichever call
\* inside the handler raised.
C29_FailedMeansNotDelivered ==
    (Handled /\ last.outcome = "failed") =>
       /\ ~Delivered(last.trace)
       /\ run[last.engine].transmitted = <<>>
            \/ run[last.engine].transmitted
                  [Len(run[last.engine].transmitted)].app_id # last.app_id

\* the time at which the handler appended its followup_sent entry
SentAt == {last.logged[i].timestamp.t :
             i \in {j \in 1..Len(last.logged) :
                      last.logged[j].action = "followup_sent"}}

\* C30: after a follow-up that was sent and recorded in a run that is not a
\* dry run, and did not bounce, the record's new next follow-up date is
\* later than the time of the handler, so that the record is not due for a
\* run started at once, however long it had been overdue.
C30_NextDateInFuture ==
    (Handled /\ ~last.dry_run /\ last.outcome = "sent"
       /\ FollowupRecorded(last.trace) /\ ~BounceReported(last.trace)) =>
       /\ SentAt # {}
       /\ Parseable(last.post.next_followup_date)
       /\ \A t \in SentAt, tz \in KnownTimezones :
             InstantIn(tz, last.post.next_followup_date) > t

====
